---- MODULE Spec2Model ----
(***************************************************************************)
(* libDaisy MIDI parser: MidiParser (src/src/hid/midi_parser.cpp) and the  *)
(* SysexChunk view / MidiEvent record (src/unnamed/part_000, the MIDI      *)
(* event header).  One action per public operation: Parse(byte), Reset()   *)
(* and the consumer's SysexChunk::ReadByte() on the chunk of the event it  *)
(* was handed last.  The variable `trace` is a history of the calls made   *)
(* and of what each returned; the properties are stated over it.           *)
(***************************************************************************)
EXTENDS Integers, Sequences, FiniteSets

(***************************************************************************)
(* Bounds.  The two SysEx sizes are scaled down from 128 and 1024 (the     *)
(* queue stays an exact multiple of the chunk length, as the static_assert *)
(* of the header requires) so that whole messages, chunk boundaries and    *)
(* queue exhaustion are all within reach of exhaustive exploration.        *)
(***************************************************************************)
SYSEX_BUF_CHUNK_LEN == 2
SYSEX_BUF_MAX_SIZE == 2 * SYSEX_BUF_CHUNK_LEN

\* longest history of calls explored from construction, per specification
MaxCalls == 5

(***************************************************************************)
(* enum MidiMessageType                                                    *)
(***************************************************************************)
NoteOff == 0
NoteOn == 1
PolyphonicKeyPressure == 2
ControlChange == 3
ProgramChange == 4
ChannelPressure == 5
PitchBend == 6
SystemCommon == 7
SystemRealTime == 8
ChannelMode == 9
MessageLast == 10

(***************************************************************************)
(* enum SystemCommonType                                                   *)
(***************************************************************************)
SystemExclusive == 0
MTCQuarterFrame == 1
SongPositionPointer == 2
SongSelect == 3

(***************************************************************************)
(* enum SysexChunk<>::Type                                                 *)
(***************************************************************************)
Invalid == 0
Individual == 1
SeqFirst == 2
SeqIntermediate == 3
SeqLast == 4

(***************************************************************************)
(* enum MidiParser::ParserState                                            *)
(***************************************************************************)
ParserEmpty == "ParserEmpty"
ParserHasStatus == "ParserHasStatus"
ParserHasData0 == "ParserHasData0"
ParserSysEx == "ParserSysEx"

(***************************************************************************)
(* The masks of Parse, on a uint8_t byte (0..255).                         *)
(***************************************************************************)
\* byte & kStatusByteMask (0x80), as a truth value
StatusBit(byte) == byte >= 128
\* byte & kChannelMask (0x0F)
ChannelOf(byte) == byte % 16
\* (byte & kMessageMask (0x70)) >> 4
MessageOf(byte) == (byte \div 16) % 8
\* (byte & 0xF8) == 0xF8
IsRealTimeByte(byte) == (byte \div 8) % 32 = 31
\* byte & 0x07 (also kSystemRealTimeMask)
Low3(byte) == byte % 8
\* byte & kDataByteMask (0x7F)
DataOf(byte) == byte % 128

(***************************************************************************)
(* SysexChunk: the default-constructed view and the bound one.             *)
(* ringbuf_ is either nullptr or &sysex_buf_: a boolean.                   *)
(***************************************************************************)
EmptyChunk == [type_ |-> Invalid, ringbuf_ |-> FALSE, size_ |-> 0, bytes_read_ |-> 0]

MakeChunk(type, size) ==
    [type_ |-> type, ringbuf_ |-> TRUE, size_ |-> size, bytes_read_ |-> 0]

GetBytesRemaining(chunk) == chunk.size_ - chunk.bytes_read_

(***************************************************************************)
(* RingBuffer<uint8_t, SYSEX_BUF_MAX_SIZE>: a FIFO of fixed capacity.      *)
(***************************************************************************)
readable(buf) == Len(buf)
writable(buf) == SYSEX_BUF_MAX_SIZE - Len(buf)
Write(buf, byte) == Append(buf, byte)
Flush(buf) == << >>

\* (the declared length is not looked at)
can_readNoLimit(chunk, buf) ==
    /\ chunk.ringbuf_
    /\ readable(buf) > 0

can_read(chunk, buf) ==
    /\ chunk.bytes_read_ < chunk.size_
    /\ chunk.ringbuf_
    /\ readable(buf) > 0

(***************************************************************************)
(* The parser object as one record, so that Parse and Reset are functions  *)
(* of it.                                                                  *)
(***************************************************************************)
FreshMessage ==
    [type |-> MessageLast, channel |-> 0, data |-> [i \in 0..1 |-> 0],
     sysex_chunk |-> EmptyChunk, sc_type |-> 0, srt_type |-> 0, cm_type |-> 0]

FreshParser ==
    [pstate_ |-> ParserEmpty,
     incoming_message_ |-> FreshMessage,
     running_status_ |-> NoteOff,
     sysex_buf_ |-> << >>,
     sysex_chunk_len_ |-> 0,
     sysex_chunk_count_ |-> 0,
     sysex_overflow_ |-> FALSE]

(***************************************************************************)
(* MidiParser::Reset                                                       *)
(***************************************************************************)
\* (the overflow flag is not cleared)
ResetKeepsOverflow(p) ==
    [p EXCEPT !.pstate_ = ParserEmpty,
              !.sysex_chunk_len_ = 0,
              !.sysex_chunk_count_ = 0,
              !.incoming_message_.type = MessageLast,
              !.incoming_message_.sysex_chunk = EmptyChunk]

\* (line 211 left out: the chunk byte count is not cleared)
ResetKeepsLen(p) ==
    [p EXCEPT !.pstate_ = ParserEmpty,
              !.sysex_chunk_count_ = 0,
              !.sysex_overflow_ = FALSE,
              !.incoming_message_.type = MessageLast,
              !.incoming_message_.sysex_chunk = EmptyChunk]

ResetF(p) ==
    [p EXCEPT !.pstate_ = ParserEmpty,
              !.sysex_chunk_len_ = 0,
              !.sysex_chunk_count_ = 0,
              !.sysex_overflow_ = FALSE,
              !.incoming_message_.type = MessageLast,
              !.incoming_message_.sysex_chunk = EmptyChunk]

(***************************************************************************)
(* MidiParser::produceSysexChunk.  The result carries the parser and the   *)
(* caller's event (event_out is never null here: see Parse).              *)
(***************************************************************************)
\* (every final chunk tagged Individual)
ChunkTypeNoLast(count, msg_ended) ==
    IF msg_ended THEN Individual
    ELSE (IF count = 0 THEN SeqFirst ELSE SeqIntermediate)

\* lines 220-241: the tag of the chunk
ChunkType(count, msg_ended) ==
    IF count = 0
    THEN (IF msg_ended THEN Individual ELSE SeqFirst)
    ELSE (IF msg_ended THEN SeqLast ELSE SeqIntermediate)

\* (line 235 left out: the counter is not reset by the final chunk)
ChunkCountSticky(count, msg_ended) ==
    IF msg_ended THEN count ELSE count + 1

\* lines 221-241: the chunk sequence counter afterwards
ChunkCount(count, msg_ended) ==
    IF count = 0
    THEN (IF msg_ended THEN count ELSE count + 1)
    ELSE (IF msg_ended THEN 0 ELSE count + 1)

\* (line 250 left out: the chunk byte count is not reset)
produceSysexChunkKeepsLen(p, msg_ended) ==
    LET type == ChunkType(p.sysex_chunk_count_, msg_ended)
    IN  [p |-> [p EXCEPT !.sysex_chunk_count_ = ChunkCount(@, msg_ended)],
         did_parse |-> TRUE,
         event |-> [p.incoming_message_ EXCEPT
                        !.sysex_chunk = MakeChunk(type, p.sysex_chunk_len_)]]

produceSysexChunk(p, msg_ended) ==
    LET type == ChunkType(p.sysex_chunk_count_, msg_ended)
    IN  [p |-> [p EXCEPT !.sysex_chunk_count_ = ChunkCount(@, msg_ended),
                         !.sysex_chunk_len_ = 0],
         did_parse |-> TRUE,
         event |-> [p.incoming_message_ EXCEPT
                        !.sysex_chunk = MakeChunk(type, p.sysex_chunk_len_)]]

(***************************************************************************)
(* MidiParser::Parse, one case of the switch per operator.  Each returns   *)
(* [p, did_parse, event]: the parser afterwards, the return value, and the *)
(* value left in *event_out (ev, the caller's event, when nothing is       *)
(* written to it).                                                         *)
(***************************************************************************)
Complete(p) == [p |-> p, did_parse |-> TRUE, event |-> p.incoming_message_]

Pending(p, ev) == [p |-> p, did_parse |-> FALSE, event |-> ev]

\* (ProgramChange left out, as the comment of line 79 would have it)
SingleDataByteNoProgramChange(p) ==
    \/ p.running_status_ = ChannelPressure
    \/ p.incoming_message_.sc_type = MTCQuarterFrame
    \/ p.incoming_message_.sc_type = SongSelect

\* the kinds completed by a single data byte (lines 80-83 and 103-106)
SingleDataByte(p) ==
    \/ p.running_status_ = ChannelPressure
    \/ p.running_status_ = ProgramChange
    \/ p.incoming_message_.sc_type = MTCQuarterFrame
    \/ p.incoming_message_.sc_type = SongSelect

ParseEmptyStatus(p, byte, ev) ==
    LET type == IF IsRealTimeByte(byte) THEN SystemRealTime ELSE MessageOf(byte)
        m0 == [p.incoming_message_ EXCEPT !.channel = ChannelOf(byte), !.type = type]
        p0 == [p EXCEPT !.incoming_message_ = m0]
    IN  IF type < MessageLast
        THEN IF type = SystemCommon
             THEN LET sc == Low3(byte)
                      m1 == [m0 EXCEPT !.channel = 0, !.sc_type = sc]
                  IN  IF sc = SystemExclusive
                      THEN Pending([p0 EXCEPT !.incoming_message_ = m1,
                                              !.pstate_ = ParserSysEx], ev)
                      ELSE IF sc > SongSelect
                      THEN Complete([p0 EXCEPT !.incoming_message_ = m1,
                                               !.pstate_ = ParserEmpty])
                      ELSE Pending([p0 EXCEPT !.incoming_message_ = m1,
                                              !.pstate_ = ParserHasStatus], ev)
             ELSE IF type = SystemRealTime
             THEN Complete([p0 EXCEPT !.incoming_message_.srt_type = Low3(byte),
                                      !.pstate_ = ParserEmpty])
             ELSE Pending([p0 EXCEPT !.running_status_ = type,
                                     !.pstate_ = ParserHasStatus], ev)
        ELSE Pending(p0, ev)

\* (line 77 left out: the kind is not taken from the running status)
ParseEmptyDataStaleType(p, byte, ev) ==
    LET p0 == [p EXCEPT !.incoming_message_.data[0] = DataOf(byte)]
    IN  IF SingleDataByte(p0)
        THEN Complete([p0 EXCEPT !.pstate_ = ParserEmpty])
        ELSE Pending([p0 EXCEPT !.pstate_ = ParserHasData0], ev)

\* lines 76-96: a data byte in Empty is handled as running status
ParseEmptyData(p, byte, ev) ==
    LET p0 == [p EXCEPT !.incoming_message_.type = p.running_status_,
                        !.incoming_message_.data[0] = DataOf(byte)]
    IN  IF SingleDataByte(p0)
        THEN Complete([p0 EXCEPT !.pstate_ = ParserEmpty])
        ELSE Pending([p0 EXCEPT !.pstate_ = ParserHasData0], ev)

ParseEmpty(p, byte, ev) ==
    IF StatusBit(byte) THEN ParseEmptyStatus(p, byte, ev) ELSE ParseEmptyData(p, byte, ev)

\* lines 121-129: Control Changes 120..127 are Channel Mode messages
ChannelModeRule(p) ==
    IF p.running_status_ = ControlChange /\ p.incoming_message_.data[0] > 119
    THEN [p EXCEPT !.incoming_message_.type = ChannelMode,
                   !.running_status_ = ChannelMode,
                   !.incoming_message_.cm_type = p.incoming_message_.data[0] - 120]
    ELSE p

ParseHasStatus(p, byte, ev) ==
    IF ~StatusBit(byte)
    THEN LET p0 == [p EXCEPT !.incoming_message_.data[0] = DataOf(byte)]
         IN  IF SingleDataByte(p0)
             THEN \* the event is copied out before the Channel Mode rule runs
                  [p |-> ChannelModeRule([p0 EXCEPT !.pstate_ = ParserEmpty]),
                   did_parse |-> TRUE,
                   event |-> p0.incoming_message_]
             ELSE Pending(ChannelModeRule([p0 EXCEPT !.pstate_ = ParserHasData0]), ev)
    ELSE Pending([p EXCEPT !.pstate_ = ParserEmpty], ev)

\* line 143: velocity 0 NoteOns are NoteOffs
ZeroVelocityRule(p) ==
    IF p.running_status_ = NoteOn /\ p.incoming_message_.data[1] = 0
    THEN [p EXCEPT !.incoming_message_.type = NoteOff]
    ELSE p

ParseHasData0(p, byte, ev) ==
    IF ~StatusBit(byte)
    THEN LET p0 == ZeroVelocityRule(
                       [p EXCEPT !.incoming_message_.data[1] = DataOf(byte)])
         IN  Complete([p0 EXCEPT !.pstate_ = ParserEmpty])
    ELSE Pending([p EXCEPT !.pstate_ = ParserEmpty], ev)

\* (the overflow flag is not looked at)
CanStoreNoFlag(p) == writable(p.sysex_buf_) > 0

\* line 184: the byte is stored unless the message has overflowed or the
\* queue is full
CanStore(p) == ~p.sysex_overflow_ /\ writable(p.sysex_buf_) > 0

\* (one byte late: > for >=)
ChunkFullLate(len) == len > SYSEX_BUF_CHUNK_LEN

\* line 187: the chunk is emitted once it holds SYSEX_BUF_CHUNK_LEN bytes
ChunkFull(len) == len >= SYSEX_BUF_CHUNK_LEN

\* lines 168-174: the terminator of a message that overflowed
OverflowEnd(p) ==
    [p EXCEPT !.sysex_buf_ = Flush(@),
              !.sysex_chunk_len_ = 0,
              !.sysex_chunk_count_ = 0,
              !.sysex_overflow_ = FALSE]

ParseSysEx(p, byte, ev) ==
    IF byte = 247
    THEN IF p.sysex_overflow_
         THEN Pending(OverflowEnd(p), ev)
         ELSE produceSysexChunk([p EXCEPT !.pstate_ = ParserEmpty], TRUE)
    ELSE IF CanStore(p)
         THEN LET p0 == [p EXCEPT !.sysex_buf_ = Write(@, byte),
                                  !.sysex_chunk_len_ = @ + 1]
              IN  IF ChunkFull(p0.sysex_chunk_len_)
                  THEN produceSysexChunk(p0, FALSE)
                  ELSE Pending(p0, ev)
         ELSE Pending([p EXCEPT !.sysex_overflow_ = TRUE], ev)

\* (lines 10-13 left out: a status byte does not reset the parser)
ParseFNoReset(p, byte, ev) ==
    CASE p.pstate_ = ParserEmpty -> ParseEmpty(p, byte, ev)
      [] p.pstate_ = ParserHasStatus -> ParseHasStatus(p, byte, ev)
      [] p.pstate_ = ParserHasData0 -> ParseHasData0(p, byte, ev)
      [] p.pstate_ = ParserSysEx -> ParseSysEx(p, byte, ev)

\* (line 10 without its second condition: a status byte resets the parser
\* in SysEx as well)
ParseFResetsInSysEx(p, byte, ev) ==
    LET p0 == IF StatusBit(byte)
              THEN [p EXCEPT !.pstate_ = ParserEmpty]
              ELSE p
    IN  CASE p0.pstate_ = ParserEmpty -> ParseEmpty(p0, byte, ev)
          [] p0.pstate_ = ParserHasStatus -> ParseHasStatus(p0, byte, ev)
          [] p0.pstate_ = ParserHasData0 -> ParseHasData0(p0, byte, ev)
          [] p0.pstate_ = ParserSysEx -> ParseSysEx(p0, byte, ev)

ParseF(p, byte, ev) ==
    LET p0 == IF StatusBit(byte) /\ p.pstate_ # ParserSysEx
              THEN [p EXCEPT !.pstate_ = ParserEmpty]
              ELSE p
    IN  CASE p0.pstate_ = ParserEmpty -> ParseEmpty(p0, byte, ev)
          [] p0.pstate_ = ParserHasStatus -> ParseHasStatus(p0, byte, ev)
          [] p0.pstate_ = ParserHasData0 -> ParseHasData0(p0, byte, ev)
          [] p0.pstate_ = ParserSysEx -> ParseSysEx(p0, byte, ev)

(***************************************************************************)
(* SysexChunk::ReadByte on a chunk over the queue buf:                     *)
(* [chunk, buf, ret], ret the byte returned.                               *)
(***************************************************************************)
ReadByteF(chunk, buf) ==
    IF ~can_read(chunk, buf)
    THEN [chunk |-> chunk, buf |-> buf, ret |-> 255]
    ELSE [chunk |-> [chunk EXCEPT !.bytes_read_ = @ + 1],
          buf |-> Tail(buf),
          ret |-> Head(buf)]

(***************************************************************************)
(* SysexChunk::ReadBytes(buf, size) on a chunk over the queue buf, null    *)
(* telling whether the destination is nullptr: [chunk, buf, out, ret], out *)
(* the bytes copied to the destination and ret the count returned.         *)
(***************************************************************************)
\* (count <= size for count < size: one byte too many)
RECURSIVE ReadLoopOneMore(_, _, _, _)
ReadLoopOneMore(chunk, buf, out, size) ==
    IF can_read(chunk, buf) /\ Len(out) <= size
    THEN ReadLoopOneMore([chunk EXCEPT !.bytes_read_ = @ + 1], Tail(buf),
                         Append(out, Head(buf)), size)
    ELSE [chunk |-> chunk, buf |-> buf, out |-> out, ret |-> Len(out)]

\* lines 78-82: the loop, Len(out) being count
RECURSIVE ReadLoop(_, _, _, _)
ReadLoop(chunk, buf, out, size) ==
    IF can_read(chunk, buf) /\ Len(out) < size
    THEN ReadLoop([chunk EXCEPT !.bytes_read_ = @ + 1], Tail(buf),
                  Append(out, Head(buf)), size)
    ELSE [chunk |-> chunk, buf |-> buf, out |-> out, ret |-> Len(out)]

ReadBytesF(chunk, buf, null, size) ==
    IF null
    THEN [chunk |-> chunk, buf |-> buf, out |-> << >>, ret |-> 0]
    ELSE ReadLoop(chunk, buf, << >>, size)

(***************************************************************************)
(* State: the members of MidiParser, the caller's MidiEvent (the object    *)
(* event_out points to, which is also where the consumer's chunk view      *)
(* lives), the value the last Parse call returned, and the history of      *)
(* calls.                                                                  *)
(***************************************************************************)
VARIABLES pstate_, incoming_message_, running_status_, sysex_buf_,
          sysex_chunk_len_, sysex_chunk_count_, sysex_overflow_,
          event_out, did_parse, trace

vars == <<pstate_, incoming_message_, running_status_, sysex_buf_,
          sysex_chunk_len_, sysex_chunk_count_, sysex_overflow_,
          event_out, did_parse, trace>>

\* the parser object in the current state
P ==
    [pstate_ |-> pstate_,
     incoming_message_ |-> incoming_message_,
     running_status_ |-> running_status_,
     sysex_buf_ |-> sysex_buf_,
     sysex_chunk_len_ |-> sysex_chunk_len_,
     sysex_chunk_count_ |-> sysex_chunk_count_,
     sysex_overflow_ |-> sysex_overflow_]

SetParser(q) ==
    /\ pstate_' = q.pstate_
    /\ incoming_message_' = q.incoming_message_
    /\ running_status_' = q.running_status_
    /\ sysex_buf_' = q.sysex_buf_
    /\ sysex_chunk_len_' = q.sysex_chunk_len_
    /\ sysex_chunk_count_' = q.sysex_chunk_count_
    /\ sysex_overflow_' = q.sysex_overflow_

\* one call in the history: the operation, the byte passed (Parse) or
\* returned (ReadByte), what it returned, the caller's event afterwards,
\* and the parser as it was before the call
Call(op, byte, ret, ev) ==
    [op |-> op, byte |-> byte, did_parse |-> ret, event |-> ev, pre |-> P]

Init ==
    /\ pstate_ = FreshParser.pstate_
    /\ incoming_message_ = FreshParser.incoming_message_
    /\ running_status_ = FreshParser.running_status_
    /\ sysex_buf_ = FreshParser.sysex_buf_
    /\ sysex_chunk_len_ = FreshParser.sysex_chunk_len_
    /\ sysex_chunk_count_ = FreshParser.sysex_chunk_count_
    /\ sysex_overflow_ = FreshParser.sysex_overflow_
    /\ event_out = FreshMessage
    /\ did_parse = FALSE
    /\ trace = << >>

(***************************************************************************)
(* bool MidiParser::Parse(uint8_t byte, MidiEvent* event_out), called with *)
(* the address of the caller's event.                                      *)
(***************************************************************************)
Parse(byte) ==
    LET r == ParseF(P, byte, event_out)
    IN  /\ SetParser(r.p)
        /\ event_out' = r.event
        /\ did_parse' = r.did_parse
        /\ trace' = Append(trace, Call("Parse", byte, r.did_parse, r.event))

(***************************************************************************)
(* void MidiParser::Reset()                                                *)
(***************************************************************************)
Reset ==
    /\ SetParser(ResetF(P))
    /\ UNCHANGED <<event_out, did_parse>>
    /\ trace' = Append(trace, Call("Reset", 0, FALSE, event_out))

(***************************************************************************)
(* The consumer calls ReadByte() on the chunk view of its event.           *)
(***************************************************************************)
ReadByte ==
    LET r == ReadByteF(event_out.sysex_chunk, sysex_buf_)
        ev == [event_out EXCEPT !.sysex_chunk = r.chunk]
    IN  /\ sysex_buf_' = r.buf
        /\ event_out' = ev
        /\ UNCHANGED <<pstate_, incoming_message_, running_status_,
                       sysex_chunk_len_, sysex_chunk_count_, sysex_overflow_,
                       did_parse>>
        /\ trace' = Append(trace,
               Call("ReadByte", r.ret, can_read(event_out.sysex_chunk, sysex_buf_), ev))

(***************************************************************************)
(* The consumer calls ReadBytes(buf, size) on the chunk view of its event; *)
(* the call is recorded with the bytes copied out and the count returned.  *)
(***************************************************************************)
ReadBytes(null, size) ==
    LET r == ReadBytesF(event_out.sysex_chunk, sysex_buf_, null, size)
        ev == [event_out EXCEPT !.sysex_chunk = r.chunk]
    IN  /\ sysex_buf_' = r.buf
        /\ event_out' = ev
        /\ UNCHANGED <<pstate_, incoming_message_, running_status_,
                       sysex_chunk_len_, sysex_chunk_count_, sysex_overflow_,
                       did_parse>>
        /\ trace' = Append(trace,
               [op |-> "ReadBytes", byte |-> size, did_parse |-> r.ret > 0,
                event |-> ev, pre |-> P, null |-> null, out |-> r.out,
                ret |-> r.ret])

(***************************************************************************)
(* Environments.  Each specification feeds the parser every sequence of    *)
(* calls over a small alphabet of bytes, up to a bound on the history.     *)
(***************************************************************************)
NumParse(t) == Cardinality({i \in 1..Len(t) : t[i].op = "Parse"})

Gate == can_read(event_out.sysex_chunk, sysex_buf_)

\* Spec: note traffic on channel 3 with Real-Time and MTC Quarter-Frame
\* bytes in between: 0x00 0x40 0x7F, 0x93 (Note-On), 0xF1, 0xF8
NoteBytes == {0, 64, 127, 147, 241, 248}

Next ==
    \/ \E byte \in NoteBytes : Len(trace) < MaxCalls /\ Parse(byte)
    \/ Len(trace) < MaxCalls /\ Reset

Spec == Init /\ [][Next]_vars

\* SpecCC: Control-Change traffic on channel 5: controllers 0x00, 0x77
\* (119), 0x78 (120), 0x7F (127), status 0xB5, and 0xF1
CCBytes == {0, 119, 120, 127, 181, 241}

NextCC ==
    \/ \E byte \in CCBytes : Len(trace) < MaxCalls /\ Parse(byte)
    \/ Len(trace) < MaxCalls /\ Reset

SpecCC == Init /\ [][NextCC]_vars

\* SpecPC: Program-Change and Channel-Pressure traffic on channel 5 (0xC5,
\* 0xD5) with data bytes 0x00, 0x40, 0x7F and a Note-On status 0x93
PCBytes == {0, 64, 127, 147, 197, 213}

NextPC ==
    \/ \E byte \in PCBytes : Len(trace) < MaxCalls /\ Parse(byte)
    \/ Len(trace) < MaxCalls /\ Reset

SpecPC == Init /\ [][NextPC]_vars

\* SpecSPP: Song-Position-Pointer messages (0xF2) after Note-On (0x93) and
\* Control-Change (0xB5) traffic, data bytes 0x00, 0x40, 0x78
SPPBytes == {0, 64, 120, 147, 181, 242}

NextSPP ==
    \/ \E byte \in SPPBytes : Len(trace) < MaxCalls /\ Parse(byte)
    \/ Len(trace) < MaxCalls /\ Reset

SpecSPP == Init /\ [][NextSPP]_vars

\* SpecDrain: SysEx traffic (0x01, 0x90, 0xF0, 0xF7) to a consumer that
\* drains every chunk as soon as it is emitted: Parse is not called again
\* before ReadByte has emptied the chunk.
SysExBytes == {1, 144, 240, 247}

MaxDrainParse == 2 * SYSEX_BUF_CHUNK_LEN + 2

NextDrain ==
    \/ \E byte \in SysExBytes :
          NumParse(trace) < MaxDrainParse /\ ~Gate /\ Parse(byte)
    \/ Gate /\ ReadByte

SpecDrain == Init /\ [][NextDrain]_vars

\* SpecOverflow: SysEx traffic (0x40, 0xF0, 0xF7) to a consumer that reads
\* when it pleases, long enough to exhaust the queue and to go on after the
\* terminator; Reset(), called once or twice, may end any history.
OverflowBytes == {64, 240, 247}

MaxOverflowCalls == SYSEX_BUF_MAX_SIZE + 5

LastOp == IF trace = << >> THEN "none" ELSE trace[Len(trace)].op

Open == Len(trace) < MaxOverflowCalls /\ LastOp # "Reset"

\* one Reset() has ended the history
ResetOnce ==
    /\ LastOp = "Reset"
    /\ (IF Len(trace) = 1 THEN TRUE ELSE trace[Len(trace) - 1].op # "Reset")

NextOverflow ==
    \/ \E byte \in OverflowBytes : Open /\ Parse(byte)
    \/ Open /\ Gate /\ ReadByte
    \/ (IF Open THEN TRUE ELSE ResetOnce) /\ Reset

SpecOverflow == Init /\ [][NextOverflow]_vars

\* SpecPayload: status-shaped bytes in and around SysEx messages (0x93,
\* 0xF0, 0xF7, 0xF8) to a consumer that reads when it pleases, long enough
\* to exhaust the queue.
PayloadBytes == {147, 240, 247, 248}

MaxPayloadCalls == SYSEX_BUF_MAX_SIZE + 3

NextPayload ==
    \/ \E byte \in PayloadBytes : Len(trace) < MaxPayloadCalls /\ Parse(byte)
    \/ Len(trace) < MaxPayloadCalls /\ Gate /\ ReadByte

SpecPayload == Init /\ [][NextPayload]_vars

\* SpecView: SysEx messages (payload 0x01 0x02) to a consumer that calls
\* ReadByte() whenever it pleases, the gate open or closed, long enough for
\* the queue to be exhausted, flushed and written again (a read that found
\* the gate closed is not repeated at once); 0xF0 is sent when the parser is
\* not in SysEx, payload and 0xF7 when it is.  ReadBytes(), with or without
\* a destination and for up to one byte more than a chunk holds, may end
\* any history.
ViewBytes == {1, 2, 240, 247}

MaxViewCalls == SYSEX_BUF_MAX_SIZE + 5

MaxCount == SYSEX_BUF_CHUNK_LEN + 1

Running == Len(trace) < MaxViewCalls /\ LastOp # "ReadBytes"

Fits(byte) == (byte = 240) <=> (pstate_ # ParserSysEx)

\* the last call was a ReadByte() that found the gate closed
Refused ==
    IF trace = << >> THEN FALSE
    ELSE trace[Len(trace)].op = "ReadByte" /\ ~trace[Len(trace)].did_parse

NextView ==
    \/ \E byte \in ViewBytes : Running /\ Fits(byte) /\ Parse(byte)
    \/ Running /\ ~Refused /\ ReadByte
    \/ \E null \in BOOLEAN, size \in 0..MaxCount : Running /\ ReadBytes(null, size)

SpecView == Init /\ [][NextView]_vars

\* SpecBook: SysEx traffic (0x40, 0xF0, 0xF7) that nobody reads, with
\* Reset() called at any time, long enough to exhaust the queue, end the
\* message and begin another.
MaxBookCalls == SYSEX_BUF_MAX_SIZE + 4

NextBook ==
    \/ \E byte \in OverflowBytes : Len(trace) < MaxBookCalls /\ Parse(byte)
    \/ Len(trace) < MaxBookCalls /\ Reset

SpecBook == Init /\ [][NextBook]_vars

(***************************************************************************)
(* Reading the history.                                                    *)
(***************************************************************************)
IsParse(i) == trace[i].op = "Parse"

IsRead(i) == trace[i].op = "ReadByte"

\* the parser after call i
PostOf(i) == IF i < Len(trace) THEN trace[i + 1].pre ELSE P

\* the caller's event before call i
EventBefore(i) == IF i = 1 THEN FreshMessage ELSE trace[i - 1].event

\* call i completed an event
Completed(i) == IsParse(i) /\ trace[i].did_parse

\* the bytes passed to Parse, in order
ParsedBytes ==
    LET ps == SelectSeq(trace, LAMBDA c : c.op = "Parse")
    IN  [i \in 1..Len(ps) |-> ps[i].byte]

\* the bytes the consumer pulled with ReadByte, in order
PulledBytes ==
    LET rs == SelectSeq(trace, LAMBDA c : c.op = "ReadByte" /\ c.did_parse)
    IN  [i \in 1..Len(rs) |-> rs[i].byte]

\* the chunk views of the completed events, in order of emission
EmittedChunks ==
    LET es == SelectSeq(trace, LAMBDA c : c.op = "Parse" /\ c.did_parse)
    IN  [i \in 1..Len(es) |-> es[i].event.sysex_chunk]

RECURSIVE SumSizes(_)
SumSizes(chunks) ==
    IF chunks = << >> THEN 0 ELSE Head(chunks).size_ + SumSizes(Tail(chunks))

\* every Parse call was made with the chunk handed out before fully drained
DrainedAlways ==
    \A i \in 1..Len(trace) :
        IsParse(i) => ~can_read(EventBefore(i).sysex_chunk, trace[i].pre.sysex_buf_)

\* the history is, from construction, exactly one SysEx message:
\* 0xF0, payload bytes other than 0xF7, 0xF7
OneSysExMessage ==
    LET b == ParsedBytes
    IN  /\ Len(b) >= 2
        /\ b[1] = 240
        /\ b[Len(b)] = 247
        /\ \A i \in 2..(Len(b) - 1) : b[i] # 247

Payload == SubSeq(ParsedBytes, 2, Len(ParsedBytes) - 1)

(***************************************************************************)
(* C1: SysEx round trip.  From construction, with a consumer that drains   *)
(* every chunk as soon as it is emitted, 0xF0, n payload bytes and 0xF7    *)
(* emit chunks whose declared lengths sum to n and whose pulled bytes are  *)
(* the payload in order; for SYSEX_BUF_CHUNK_LEN < n < 2 *                 *)
(* SYSEX_BUF_CHUNK_LEN exactly two chunks are emitted, SeqFirst of length  *)
(* SYSEX_BUF_CHUNK_LEN and SeqLast of length n - SYSEX_BUF_CHUNK_LEN.      *)
(***************************************************************************)
C1_RoundTrip ==
    (OneSysExMessage /\ DrainedAlways /\ ~Gate) =>
        LET n == Len(Payload)
            chunks == EmittedChunks
        IN  /\ SumSizes(chunks) = n
            /\ PulledBytes = Payload
            /\ (SYSEX_BUF_CHUNK_LEN < n /\ n < 2 * SYSEX_BUF_CHUNK_LEN) =>
                  /\ Len(chunks) = 2
                  /\ chunks[1].type_ = SeqFirst
                  /\ chunks[1].size_ = SYSEX_BUF_CHUNK_LEN
                  /\ chunks[2].type_ = SeqLast
                  /\ chunks[2].size_ = n - SYSEX_BUF_CHUNK_LEN

\* a drained two-chunk message whose payload bytes are not all the same
C1_Witness ==
    /\ OneSysExMessage /\ DrainedAlways /\ ~Gate
    /\ SYSEX_BUF_CHUNK_LEN < Len(Payload)
    /\ Len(Payload) < 2 * SYSEX_BUF_CHUNK_LEN
    /\ Payload[1] # Payload[Len(Payload)]
    /\ Len(PulledBytes) = Len(Payload)

(***************************************************************************)
(* SysEx messages within a history: call i passes 0xF0 to a parser in      *)
(* state Empty, call j passes the next 0xF7, and between them there are    *)
(* only payload bytes and reads of the consumer.                           *)
(***************************************************************************)
Message(i, j) ==
    /\ i < j
    /\ IsParse(i) /\ trace[i].byte = 240 /\ trace[i].pre.pstate_ = ParserEmpty
    /\ IsParse(j) /\ trace[j].byte = 247
    /\ \A k \in (i + 1)..(j - 1) : (IsParse(k) /\ trace[k].byte # 247) \/ IsRead(k)

PayloadCalls(i, j) == {k \in (i + 1)..(j - 1) : IsParse(k)}

EventsIn(i, j) == {k \in i..j : Completed(k)}

IsSysExEvent(ev) == ev.type = SystemCommon /\ ev.sc_type = SystemExclusive

\* call k completed a SysEx event whose chunk has this tag and length
EmitsChunk(k, type, size) ==
    /\ Completed(k)
    /\ IsSysExEvent(trace[k].event)
    /\ trace[k].event.sysex_chunk.type_ = type
    /\ trace[k].event.sysex_chunk.size_ = size

\* the queue has room for the whole payload when 0xF0 arrives
HasRoom(i, j) ==
    writable(trace[i].pre.sysex_buf_) >= Cardinality(PayloadCalls(i, j))

(***************************************************************************)
(* C2 as stated: a SysEx message of n <= SYSEX_BUF_CHUNK_LEN payload bytes *)
(* parsed from Empty emits exactly one SysEx event, tagged Individual,     *)
(* whose declared length is n.                                             *)
(***************************************************************************)
C2_Original ==
    \A i, j \in 1..Len(trace) :
        (Message(i, j) /\ Cardinality(PayloadCalls(i, j)) <= SYSEX_BUF_CHUNK_LEN) =>
            /\ EventsIn(i, j) = {j}
            /\ EmitsChunk(j, Individual, Cardinality(PayloadCalls(i, j)))

(***************************************************************************)
(* C2 as amended: a SysEx message of n payload bytes parsed from Empty     *)
(* while the queue has room for them emits, if n < SYSEX_BUF_CHUNK_LEN,    *)
(* exactly one SysEx event, on the terminator, tagged Individual with      *)
(* declared length n; if n = SYSEX_BUF_CHUNK_LEN it emits two: SeqFirst of *)
(* length SYSEX_BUF_CHUNK_LEN on the last payload byte and SeqLast of      *)
(* length 0 on the terminator.                                             *)
(***************************************************************************)
C2_Amended ==
    \A i, j \in 1..Len(trace) :
        (Message(i, j) /\ HasRoom(i, j)) =>
            LET n == Cardinality(PayloadCalls(i, j))
            IN  /\ n < SYSEX_BUF_CHUNK_LEN =>
                      /\ EventsIn(i, j) = {j}
                      /\ EmitsChunk(j, Individual, n)
                /\ n = SYSEX_BUF_CHUNK_LEN =>
                      \E k \in PayloadCalls(i, j) :
                          /\ \A m \in PayloadCalls(i, j) : m <= k
                          /\ EventsIn(i, j) = {k, j}
                          /\ EmitsChunk(k, SeqFirst, SYSEX_BUF_CHUNK_LEN)
                          /\ EmitsChunk(j, SeqLast, 0)

\* a message of exactly SYSEX_BUF_CHUNK_LEN payload bytes has ended, in a
\* queue that still held bytes of an earlier message when it began
C2_Witness ==
    \E i, j \in 1..Len(trace) :
        /\ Message(i, j) /\ HasRoom(i, j)
        /\ Cardinality(PayloadCalls(i, j)) = SYSEX_BUF_CHUNK_LEN
        /\ readable(trace[i].pre.sysex_buf_) > 0

(***************************************************************************)
(* Channel messages within a history.                                      *)
(***************************************************************************)
\* a channel status byte of this kind (0x80 | kind << 4 | channel)
IsChannelStatus(byte, kind) ==
    StatusBit(byte) /\ ~IsRealTimeByte(byte) /\ MessageOf(byte) = kind

AllParse == \A i \in 1..Len(trace) : IsParse(i)

\* a Note-On status byte followed by data bytes only
NoteOnStream(b) ==
    /\ Len(b) >= 1
    /\ IsChannelStatus(b[1], NoteOn)
    /\ \A i \in 2..Len(b) : ~StatusBit(b[i])

\* what a note event says
NoteView(ev) ==
    [type |-> ev.type, channel |-> ev.channel, note |-> ev.data[0], velocity |-> ev.data[1]]

\* the events completed by parsing these bytes, one after the other, from p
RECURSIVE EventsOf(_, _)
EventsOf(p, bytes) ==
    IF bytes = << >>
    THEN << >>
    ELSE LET r == ParseF(p, Head(bytes), FreshMessage)
         IN  (IF r.did_parse THEN <<r.event>> ELSE << >>) \o EventsOf(r.p, Tail(bytes))

\* the events completed in the history that are not System Real-Time events
OtherEvents ==
    LET es == SelectSeq(trace, LAMBDA c : c.op = "Parse" /\ c.did_parse
                                           /\ c.event.type # SystemRealTime)
    IN  [i \in 1..Len(es) |-> es[i].event]

WithoutRealTime(b) == SelectSeq(b, LAMBDA byte : ~IsRealTimeByte(byte))

(***************************************************************************)
(* C3: every System Real-Time byte received outside SysEx completes a      *)
(* SystemRealTime event on that byte, and Real-Time bytes sent within a    *)
(* stream of Note-On messages (after the status byte, between the data     *)
(* bytes, between running-status messages) leave the note events what they *)
(* are without them: same kind, channel, note and velocity.                *)
(***************************************************************************)
C3_RealTimeTransparent ==
    (AllParse /\ NoteOnStream(WithoutRealTime(ParsedBytes))) =>
        /\ \A i \in 1..Len(trace) :
              IsRealTimeByte(trace[i].byte) =>
                  Completed(i) /\ trace[i].event.type = SystemRealTime
        /\ LET got == OtherEvents
                want == EventsOf(FreshParser, WithoutRealTime(ParsedBytes))
            IN  /\ Len(got) = Len(want)
                /\ \A k \in 1..Len(got) : NoteView(got[k]) = NoteView(want[k])

(***************************************************************************)
(* C4: from construction, a Note-On status byte 0x90|c followed by k >= 1  *)
(* pairs of data bytes completes exactly k events, one on the second byte  *)
(* of each pair and none elsewhere; each has channel c, data[0] = note,    *)
(* data[1] = velocity, and kind NoteOn if velocity > 0, NoteOff if it is 0.*)
(***************************************************************************)
C4_RunningNoteOn ==
    (AllParse /\ NoteOnStream(ParsedBytes)) =>
        \A i \in 1..Len(trace) :
            LET second == i >= 3 /\ i % 2 = 1
            IN  /\ Completed(i) <=> second
                /\ second =>
                      /\ trace[i].event.channel = ChannelOf(trace[1].byte)
                      /\ trace[i].event.data[0] = trace[i - 1].byte
                      /\ trace[i].event.data[1] = trace[i].byte
                      /\ trace[i].event.type =
                            (IF trace[i].byte > 0 THEN NoteOn ELSE NoteOff)

\* one status byte, then a pair with velocity 0 and a pair with velocity > 0
C4_Witness ==
    /\ AllParse /\ NoteOnStream(ParsedBytes)
    /\ Len(trace) = 5
    /\ trace[3].byte = 0
    /\ trace[5].byte > 0
    /\ Completed(5)

(***************************************************************************)
(* C5: a Note-On message whose velocity byte is 0 (0x90|c, note, 0) is     *)
(* completed on that byte with kind NoteOff, data[0] = note, data[1] = 0   *)
(* and channel c, and the running status is NoteOn afterwards.             *)
(***************************************************************************)
C5_ZeroVelocity ==
    \A i \in 1..(Len(trace) - 2) :
        ( /\ IsParse(i) /\ IsParse(i + 1) /\ IsParse(i + 2)
          /\ IsChannelStatus(trace[i].byte, NoteOn)
          /\ ~StatusBit(trace[i + 1].byte)
          /\ trace[i + 2].byte = 0 ) =>
            /\ Completed(i + 2)
            /\ NoteView(trace[i + 2].event) =
                  [type |-> NoteOff, channel |-> ChannelOf(trace[i].byte),
                   note |-> trace[i + 1].byte, velocity |-> 0]
            /\ PostOf(i + 2).running_status_ = NoteOn

(***************************************************************************)
(* C6: the bytes 0xB0|c, d, v parsed from Empty complete exactly one       *)
(* event, on the third byte, with channel c; for d in 120..127 its kind is *)
(* ChannelMode and its channel-mode subkind d - 120, for d in 0..119 its   *)
(* kind is ControlChange.                                                  *)
(***************************************************************************)
C6_ChannelMode ==
    \A i \in 1..(Len(trace) - 2) :
        ( /\ IsParse(i) /\ IsParse(i + 1) /\ IsParse(i + 2)
          /\ trace[i].pre.pstate_ = ParserEmpty
          /\ IsChannelStatus(trace[i].byte, ControlChange)
          /\ ~StatusBit(trace[i + 1].byte)
          /\ ~StatusBit(trace[i + 2].byte) ) =>
            LET d == trace[i + 1].byte
                ev == trace[i + 2].event
            IN  /\ ~Completed(i) /\ ~Completed(i + 1) /\ Completed(i + 2)
                /\ ev.channel = ChannelOf(trace[i].byte)
                /\ d >= 120 => ev.type = ChannelMode /\ ev.cm_type = d - 120
                /\ d < 120 => ev.type = ControlChange

(***************************************************************************)
(* C7: when the 0xF7 of a SysEx message that overflowed the queue is       *)
(* received the parser returns to Empty, so that a 0xF0 that follows       *)
(* starts a message and is not stored as payload.                          *)
(***************************************************************************)
OverflowTerminator(i) ==
    /\ IsParse(i) /\ trace[i].byte = 247
    /\ trace[i].pre.pstate_ = ParserSysEx
    /\ trace[i].pre.sysex_overflow_

C7_OverflowRecovery ==
    \A i \in 1..Len(trace) :
        OverflowTerminator(i) =>
            /\ PostOf(i).pstate_ = ParserEmpty
            /\ (i < Len(trace) /\ IsParse(i + 1) /\ trace[i + 1].byte = 240) =>
                  readable(PostOf(i + 1).sysex_buf_) = 0

(***************************************************************************)
(* C8: a SysEx payload byte that arrives while the queue has no writable   *)
(* space sets the overflow flag; that byte and every later payload byte of *)
(* the message are dropped without an event, also after the consumer has   *)
(* read from the queue; the 0xF7 then completes no event, leaves the queue *)
(* empty and resets the chunk byte count, the chunk sequence counter and   *)
(* the overflow flag.                                                      *)
(***************************************************************************)
Dropped(i) ==
    /\ PostOf(i).sysex_overflow_
    /\ ~trace[i].did_parse
    /\ PostOf(i).sysex_buf_ = trace[i].pre.sysex_buf_
    /\ trace[i].event = EventBefore(i)

C8_OverflowLossy ==
    \A i \in 1..Len(trace) :
        LET pre == trace[i].pre
            post == PostOf(i)
        IN  /\ (IsParse(i) /\ pre.pstate_ = ParserSysEx /\ trace[i].byte # 247
                  /\ (pre.sysex_overflow_ \/ writable(pre.sysex_buf_) = 0)) => Dropped(i)
            /\ (IsRead(i) /\ pre.sysex_overflow_) => post.sysex_overflow_
            /\ OverflowTerminator(i) =>
                  /\ ~trace[i].did_parse
                  /\ readable(post.sysex_buf_) = 0
                  /\ post.sysex_chunk_len_ = 0
                  /\ post.sysex_chunk_count_ = 0
                  /\ ~post.sysex_overflow_

\* the queue filled up, the consumer read from it, a later payload byte
\* found room and the flag set, and the terminator has been received
C8_Witness ==
    /\ Len(trace) >= 4
    /\ OverflowTerminator(Len(trace))
    /\ \E i, j, k \in 1..Len(trace) :
          /\ i < j /\ j < k
          /\ IsParse(i) /\ trace[i].byte # 247
          /\ trace[i].pre.pstate_ = ParserSysEx
          /\ ~trace[i].pre.sysex_overflow_ /\ writable(trace[i].pre.sysex_buf_) = 0
          /\ IsRead(j) /\ trace[j].did_parse
          /\ IsParse(k) /\ trace[k].byte # 247
          /\ trace[k].pre.sysex_overflow_ /\ writable(trace[k].pre.sysex_buf_) > 0

(***************************************************************************)
(* C9: Reset() in any state leaves the parser in Empty with the cached     *)
(* event kind MessageLast, chunk byte count 0, chunk sequence counter 0,   *)
(* the overflow flag false and the default (Invalid, empty) cached chunk   *)
(* view; a second Reset() changes nothing.                                 *)
(***************************************************************************)
IsReset(i) == trace[i].op = "Reset"

C9_Reset ==
    \A i \in 1..Len(trace) :
        IsReset(i) =>
            LET q == PostOf(i)
            IN  /\ q.pstate_ = ParserEmpty
                /\ q.incoming_message_.type = MessageLast
                /\ q.sysex_chunk_len_ = 0
                /\ q.sysex_chunk_count_ = 0
                /\ ~q.sysex_overflow_
                /\ q.incoming_message_.sysex_chunk = EmptyChunk
                /\ (i > 1 /\ IsReset(i - 1)) => q = trace[i].pre

\* Reset() twice, the first during overflow in the middle of a chunk
\* sequence
C9_Witness ==
    /\ Len(trace) >= 2
    /\ IsReset(Len(trace)) /\ IsReset(Len(trace) - 1)
    /\ trace[Len(trace) - 1].pre.pstate_ = ParserSysEx
    /\ trace[Len(trace) - 1].pre.sysex_overflow_
    /\ trace[Len(trace) - 1].pre.sysex_chunk_count_ > 0

(***************************************************************************)
(* C10: after Reset() the parser and its queue cannot be told from a newly *)
(* constructed parser: every sequence of Parse and ReadByte calls that     *)
(* follows returns what it returns on a new parser.                        *)
(***************************************************************************)
\* a probe is a sequence of calls: a byte for Parse, ReadCall for ReadByte
ReadCall == 0 - 1

ProbeCalls == {1, 240, 247, ReadCall}

MaxProbe == 4

Probes == UNION {[1..n -> ProbeCalls] : n \in 1..MaxProbe}

\* what the caller sees of a call
Seen(done, ev, byte) ==
    [done |-> done, type |-> ev.type, channel |-> ev.channel,
     chunk_type |-> ev.sysex_chunk.type_, chunk_size |-> ev.sysex_chunk.size_,
     byte |-> byte]

RECURSIVE Observe(_, _, _)
Observe(p, ev, w) ==
    IF w = << >>
    THEN << >>
    ELSE IF Head(w) = ReadCall
    THEN LET r == ReadByteF(ev.sysex_chunk, p.sysex_buf_)
         IN  <<Seen(can_read(ev.sysex_chunk, p.sysex_buf_), FreshMessage, r.ret)>>
                 \o Observe([p EXCEPT !.sysex_buf_ = r.buf],
                            [ev EXCEPT !.sysex_chunk = r.chunk], Tail(w))
    ELSE LET r == ParseF(p, Head(w), ev)
         IN  <<Seen(r.did_parse, IF r.did_parse THEN r.event ELSE FreshMessage, 0)>>
                 \o Observe(r.p, r.event, Tail(w))

C10_ResetIsFresh ==
    LastOp = "Reset" =>
        \A w \in Probes :
            Observe(P, FreshMessage, w) = Observe(FreshParser, FreshMessage, w)

(***************************************************************************)
(* The completed events of a history, and the SysEx chunks among them.     *)
(***************************************************************************)
Events == {k \in 1..Len(trace) : Completed(k)}

ChunkEvent(k) == Completed(k) /\ IsSysExEvent(trace[k].event)

ChunkEvents == {k \in 1..Len(trace) : ChunkEvent(k)}

Tag(k) == trace[k].event.sysex_chunk.type_

Before(S, k) == {j \in S : j < k}

Last(S) == CHOOSE j \in S : \A m \in S : m <= j

\* the last chunk emitted before call k began a group or continued one
OpenBefore(k) ==
    /\ Before(ChunkEvents, k) # {}
    /\ Tag(Last(Before(ChunkEvents, k))) \in {SeqFirst, SeqIntermediate}

\* ... and no 0xF7 of an overflowed message has been received since
StillOpen(k) ==
    /\ OpenBefore(k)
    /\ \A m \in (Last(Before(ChunkEvents, k)) + 1)..(k - 1) : ~OverflowTerminator(m)

(***************************************************************************)
(* C11 as stated: the tags of the emitted SysEx chunks form groups, each   *)
(* an Individual or a SeqFirst, SeqIntermediates and a SeqLast; only the   *)
(* last group may lack its SeqLast: a SeqFirst or Individual is never      *)
(* emitted while the group before it is open, a SeqIntermediate or SeqLast *)
(* only while it is, and no other event is emitted while a group is open.  *)
(***************************************************************************)
C11_Original ==
    \A k \in Events :
        IF ChunkEvent(k)
        THEN /\ Tag(k) \in {Individual, SeqFirst, SeqIntermediate, SeqLast}
             /\ Tag(k) \in {Individual, SeqFirst} => ~OpenBefore(k)
             /\ Tag(k) \in {SeqIntermediate, SeqLast} => OpenBefore(k)
        ELSE ~OpenBefore(k)

(***************************************************************************)
(* C11 as amended: a group is also ended, without a SeqLast, by the 0xF7   *)
(* of a message that overflowed the queue.  A SeqFirst or Individual is    *)
(* never emitted, and no other event is emitted, while a group is open and *)
(* has not been ended so; a SeqIntermediate or SeqLast is emitted only     *)
(* then.                                                                   *)
(***************************************************************************)
C11_Amended ==
    \A k \in Events :
        IF ChunkEvent(k)
        THEN /\ Tag(k) \in {Individual, SeqFirst, SeqIntermediate, SeqLast}
             /\ Tag(k) \in {Individual, SeqFirst} => ~StillOpen(k)
             /\ Tag(k) \in {SeqIntermediate, SeqLast} => StillOpen(k)
        ELSE ~StillOpen(k)

\* a chunk has been emitted after a group that overflow ended, in a history
\* that also has an event that is not a chunk
C11_Witness ==
    /\ \E k \in ChunkEvents : OpenBefore(k) /\ ~StillOpen(k)
    /\ Events # ChunkEvents

(***************************************************************************)
(* C12: every completed event of kind SystemCommon or SystemRealTime has   *)
(* channel number 0.                                                       *)
(***************************************************************************)
C12_SystemChannel ==
    \A k \in Events :
        trace[k].event.type \in {SystemCommon, SystemRealTime} =>
            trace[k].event.channel = 0

(***************************************************************************)
(* C13: in state SysEx every byte other than 0xF7, status-shaped or not,   *)
(* is payload: the parser stays in SysEx; the byte is appended to the      *)
(* queue when the message has not overflowed and the queue has room, and   *)
(* is dropped otherwise; an event completed on it is a SysEx chunk; the    *)
(* cached running status, channel and event kind are unchanged.  Only 0xF7 *)
(* takes the parser out of SysEx.                                          *)
(***************************************************************************)
InSysEx(i) == IsParse(i) /\ trace[i].pre.pstate_ = ParserSysEx

C13_PayloadOnly ==
    \A i \in 1..Len(trace) :
        LET pre == trace[i].pre
            post == PostOf(i)
        IN  /\ (InSysEx(i) /\ trace[i].byte # 247) =>
                  /\ post.pstate_ = ParserSysEx
                  /\ post.sysex_buf_ =
                        (IF ~pre.sysex_overflow_ /\ writable(pre.sysex_buf_) > 0
                         THEN Append(pre.sysex_buf_, trace[i].byte)
                         ELSE pre.sysex_buf_)
                  /\ Completed(i) => IsSysExEvent(trace[i].event)
                  /\ post.running_status_ = pre.running_status_
                  /\ post.incoming_message_.channel = pre.incoming_message_.channel
                  /\ post.incoming_message_.type = pre.incoming_message_.type
            /\ (InSysEx(i) /\ post.pstate_ # ParserSysEx) => trace[i].byte = 247

\* a channel status byte and a Real-Time byte have been stored as payload,
\* a later status-shaped byte found the queue full, and a 0xF7 has been
\* received in SysEx
C13_Witness ==
    \E i, j, k, m \in 1..Len(trace) :
        /\ InSysEx(i) /\ trace[i].byte = 147
        /\ InSysEx(j) /\ trace[j].byte = 248
        /\ PostOf(i).sysex_buf_ # trace[i].pre.sysex_buf_
        /\ PostOf(j).sysex_buf_ # trace[j].pre.sysex_buf_
        /\ InSysEx(k) /\ trace[k].byte = 240 /\ writable(trace[k].pre.sysex_buf_) = 0
        /\ InSysEx(m) /\ trace[m].byte = 247

(***************************************************************************)
(* C14: a status byte received in HasStatus or HasData0 is processed       *)
(* exactly as in Empty: the parser, the return value and the caller's      *)
(* event afterwards are those of the same call made in state Empty.  The   *)
(* partial message produces no event: the call completes an event only for *)
(* a status byte that is a whole message (0xF4..0xFF), and the event is    *)
(* that message; otherwise the caller's event is not written.  The data    *)
(* bytes that follow complete the events they complete after the same      *)
(* status byte received in Empty.                                          *)
(***************************************************************************)
OutOfSequence(i) ==
    /\ IsParse(i) /\ StatusBit(trace[i].byte)
    /\ trace[i].pre.pstate_ \in {ParserHasStatus, ParserHasData0}

\* calls i+1..j pass data bytes to Parse
DataRun(i, j) ==
    /\ i <= j
    /\ \A k \in (i + 1)..j : IsParse(k) /\ ~StatusBit(trace[k].byte)

\* the events completed by calls i..j, in order
EventsFrom(i, j) ==
    LET es == SelectSeq(SubSeq(trace, i, j), LAMBDA c : c.op = "Parse" /\ c.did_parse)
    IN  [k \in 1..Len(es) |-> es[k].event]

BytesFrom(i, j) == [k \in 1..(j - i + 1) |-> trace[i + k - 1].byte]

Stored(i) ==
    /\ InSysEx(i) /\ trace[i].byte # 247
    /\ PostOf(i).sysex_buf_ = Append(trace[i].pre.sysex_buf_, trace[i].byte)

\* the bytes stored by calls 1..k, in order
StoredUpTo(k) ==
    LET idx == {i \in 1..k : Stored(i)}
        ss == SelectSeq([i \in 1..k |-> IF i \in idx THEN trace[i].byte ELSE 0 - 1],
                        LAMBDA b : b >= 0)
    IN  ss

\* the last n elements of a sequence
LastN(q, n) == SubSeq(q, Len(q) - n + 1, Len(q))

IsReadBytes(i) == trace[i].op = "ReadBytes"

\* the consumer's chunk view before and after call i
ViewBefore(i) == EventBefore(i).sysex_chunk

ViewAfter(i) == trace[i].event.sysex_chunk

\* the gate as call i found it: bytes left to consume, a queue bound, and
\* bytes in the queue
GateOpen(i) ==
    /\ ViewBefore(i).bytes_read_ < ViewBefore(i).size_
    /\ ViewBefore(i).ringbuf_
    /\ trace[i].pre.sysex_buf_ # << >>

(***************************************************************************)
(* C16: whatever the parser and the consumer have done, a view's consumed  *)
(* count never exceeds its declared length; a read takes bytes out of the  *)
(* queue only when the queue is bound and not empty; ReadByte() with the   *)
(* gate closed returns 0xFF and leaves the view and the queue as they are; *)
(* with the gate open it returns the oldest byte of the queue, removes     *)
(* that byte only and adds one to the consumed count.                      *)
(***************************************************************************)
C16_Gate ==
    \A i \in 1..Len(trace) :
        LET q == trace[i].pre.sysex_buf_
            r == PostOf(i).sysex_buf_
        IN  /\ ViewAfter(i).bytes_read_ <= ViewAfter(i).size_
            /\ GetBytesRemaining(ViewAfter(i)) >= 0
            /\ ((IsRead(i) \/ IsReadBytes(i)) /\ r # q) =>
                  q # << >> /\ ViewBefore(i).ringbuf_
            /\ (IsRead(i) /\ ~GateOpen(i)) =>
                  /\ trace[i].byte = 255
                  /\ ViewAfter(i) = ViewBefore(i)
                  /\ r = q
            /\ (IsRead(i) /\ GateOpen(i)) =>
                  /\ trace[i].byte = Head(q)
                  /\ ViewAfter(i) = [ViewBefore(i) EXCEPT !.bytes_read_ = @ + 1]
                  /\ r = Tail(q)

\* ReadByte() has found the gate open, and has found it closed by the
\* declared length alone, bytes of the next chunk waiting in the queue
C16_Witness ==
    \E i, j \in 1..Len(trace) :
        /\ IsRead(i) /\ GateOpen(i)
        /\ IsRead(j) /\ ~GateOpen(j)
        /\ ViewBefore(j).ringbuf_
        /\ ViewBefore(j).size_ > 0
        /\ trace[j].pre.sysex_buf_ # << >>

(***************************************************************************)
(* C17: ReadBytes(buf, max_count) with a destination copies out and        *)
(* returns exactly min(max_count, declared length - consumed count, queue  *)
(* readable count) bytes, the oldest of the queue in their order, adds     *)
(* that number to the consumed count and takes those bytes out of the      *)
(* queue: the effect of that many ReadByte() calls, each of which finds    *)
(* the gate open.  With a null destination it returns 0 and leaves the     *)
(* view and the queue as they are.                                         *)
(***************************************************************************)
Min(a, b) == IF a <= b THEN a ELSE b

\* n ReadByte() calls in a row: the view and the queue afterwards, the
\* bytes returned, and whether every call found the gate open
RECURSIVE ReadByteTimes(_, _, _)
ReadByteTimes(chunk, buf, n) ==
    IF n = 0
    THEN [chunk |-> chunk, buf |-> buf, out |-> << >>, open |-> TRUE]
    ELSE LET r == ReadByteF(chunk, buf)
             rest == ReadByteTimes(r.chunk, r.buf, n - 1)
         IN  [chunk |-> rest.chunk, buf |-> rest.buf,
              out |-> <<r.ret>> \o rest.out,
              open |-> rest.open /\ chunk.bytes_read_ < chunk.size_
                          /\ chunk.ringbuf_ /\ buf # << >>]

C17_ReadBytes ==
    \A i \in 1..Len(trace) :
        IsReadBytes(i) =>
            LET v == ViewBefore(i)
                q == trace[i].pre.sysex_buf_
                n == Min(trace[i].byte, Min(v.size_ - v.bytes_read_, Len(q)))
            IN  IF trace[i].null
                THEN /\ trace[i].ret = 0
                     /\ trace[i].out = << >>
                     /\ ViewAfter(i) = v
                     /\ PostOf(i).sysex_buf_ = q
                ELSE /\ trace[i].ret = n
                     /\ trace[i].out = SubSeq(q, 1, n)
                     /\ ViewAfter(i) = [v EXCEPT !.bytes_read_ = @ + n]
                     /\ PostOf(i).sysex_buf_ = SubSeq(q, n + 1, Len(q))
                     /\ LET r == ReadByteTimes(v, q, n)
                        IN  /\ r.open
                            /\ r.out = trace[i].out
                            /\ r.chunk = ViewAfter(i)
                            /\ r.buf = PostOf(i).sysex_buf_

\* ReadBytes() has copied bytes out and stopped because the queue was empty,
\* short of both max_count and the declared length
C17_Witness ==
    \E i \in 1..Len(trace) :
        /\ IsReadBytes(i) /\ ~trace[i].null
        /\ trace[i].ret > 0
        /\ trace[i].ret < trace[i].byte
        /\ trace[i].ret < ViewBefore(i).size_ - ViewBefore(i).bytes_read_

(***************************************************************************)
(* C18: from construction, a Program-Change or Channel-Pressure status     *)
(* byte (0xC0|c, 0xD0|c) followed by k >= 1 data bytes completes exactly k *)
(* events, one on each data byte and none on the status byte; each has the *)
(* kind of the status byte, channel c and data[0] equal to its data byte,  *)
(* and the parser is in Empty after each.                                  *)
(***************************************************************************)
SingleByteStream(b) ==
    /\ Len(b) >= 1
    /\ IsChannelStatus(b[1], ProgramChange) \/ IsChannelStatus(b[1], ChannelPressure)
    /\ \A i \in 2..Len(b) : ~StatusBit(b[i])

C19_SongPosition ==
    \A i \in 1..(Len(trace) - 2) :
        ( /\ IsParse(i) /\ IsParse(i + 1) /\ IsParse(i + 2)
          /\ trace[i].pre.pstate_ = ParserEmpty
          /\ trace[i].byte = 242
          /\ ~StatusBit(trace[i + 1].byte)
          /\ ~StatusBit(trace[i + 2].byte) ) =>
            LET ev == trace[i + 2].event
            IN  /\ ~Completed(i) /\ ~Completed(i + 1) /\ Completed(i + 2)
                /\ ev.type = SystemCommon
                /\ ev.sc_type = SongPositionPointer
                /\ ev.data[0] = trace[i + 1].byte
                /\ ev.data[1] = trace[i + 2].byte
                /\ PostOf(i + 2).running_status_ = trace[i].pre.running_status_

(***************************************************************************)
(* C20: outside SysEx, whatever was parsed before, a status byte of a kind *)
(* with two data bytes (NoteOff, NoteOn, PolyphonicKeyPressure,            *)
(* ControlChange, PitchBend) followed by two data bytes completes no event *)
(* on the status byte, none on the first data byte and one on the second.  *)
(***************************************************************************)
TwoDataByteKinds == {NoteOff, NoteOn, PolyphonicKeyPressure, ControlChange, PitchBend}

C20_TwoDataBytes ==
    \A i \in 1..(Len(trace) - 2) :
        ( /\ IsParse(i) /\ IsParse(i + 1) /\ IsParse(i + 2)
          /\ trace[i].pre.pstate_ # ParserSysEx
          /\ \E kind \in TwoDataByteKinds : IsChannelStatus(trace[i].byte, kind)
          /\ ~StatusBit(trace[i + 1].byte)
          /\ ~StatusBit(trace[i + 2].byte) ) =>
            /\ ~Completed(i)
            /\ ~Completed(i + 1)
            /\ Completed(i + 2)

(***************************************************************************)
(* C21: every completed event of kind ChannelMode has data[0] in 120..127  *)
(* and channel-mode subkind data[0] - 120, and every completed event of    *)
(* kind ControlChange has data[0] in 0..119, data pairs sent under running *)
(* status included.                                                        *)
(***************************************************************************)
C21_KindMatchesController ==
    \A k \in Events :
        LET ev == trace[k].event
        IN  /\ ev.type = ChannelMode =>
                  /\ ev.data[0] \in 120..127
                  /\ ev.cm_type = ev.data[0] - 120
            /\ ev.type = ControlChange => ev.data[0] \in 0..119

(***************************************************************************)
(* C22: after construction and after every Parse or Reset call the chunk   *)
(* byte count is in 0..SYSEX_BUF_CHUNK_LEN - 1, and when the parser is not *)
(* in SysEx the chunk byte count is 0, the chunk sequence counter is 0 and *)
(* the overflow flag is false; a 0xF0 received outside SysEx puts the      *)
(* parser in SysEx with all three so.                                      *)
(***************************************************************************)
Clean(p) ==
    /\ p.sysex_chunk_len_ = 0
    /\ p.sysex_chunk_count_ = 0
    /\ ~p.sysex_overflow_

C22_Bookkeeping ==
    /\ 0 <= sysex_chunk_len_ /\ sysex_chunk_len_ < SYSEX_BUF_CHUNK_LEN
    /\ sysex_chunk_count_ >= 0
    /\ pstate_ # ParserSysEx => Clean(P)
    /\ \A i \in 1..Len(trace) :
          (IsParse(i) /\ trace[i].byte = 240 /\ trace[i].pre.pstate_ # ParserSysEx) =>
              PostOf(i).pstate_ = ParserSysEx /\ Clean(PostOf(i))

\* Reset() was called in the middle of a chunk sequence of a message that
\* had overflowed, and a new message has begun since
C22_Witness ==
    \E i, j \in 1..Len(trace) :
        /\ i < j
        /\ IsReset(i)
        /\ trace[i].pre.sysex_overflow_
        /\ trace[i].pre.sysex_chunk_count_ > 0
        /\ IsParse(j) /\ trace[j].byte = 240 /\ trace[j].pre.pstate_ # ParserSysEx

====
